---- MODULE Spec2Model ----
(***************************************************************************)
(* Model of ci-sonar-analyzer.py: the SonarQubeCIAnalyzer class (issue     *)
(* aggregation, report rendering, CI decision, exit code) and main().      *)
(*                                                                         *)
(* Encoding of Python values:                                              *)
(*   - a dict is a function from its keys (strings) to its values; a key   *)
(*     the dict does not have is not in its DOMAIN; {} is EmptyDict;       *)
(*   - an Optional value is None or Some(v);                               *)
(*   - a str that the code inspects character by character (rule, message, *)
(*     component, metric value, rating) is a sequence of one-character     *)
(*     strings; an emoji is one element, written as an ASCII token;        *)
(*   - a str that the code only compares or uses as a key (severity, type, *)
(*     gate status, metric key, format) is a TLA+ string.                  *)
(* Not modelled: the clock (timestamp), the constant project key and       *)
(* server URL of the reports, the --wait-for-analysis sleep and the choice *)
(* between --output file and stdout.  The JSON body the server holds for   *)
(* an endpoint stays the same during one run; each request either fails    *)
(* (None) or returns that body.                                            *)
(***************************************************************************)
EXTENDS Integers, Sequences, FiniteSets, TLC

VARIABLES
    args,           \* main: parsed command line (format, exit_code flag)
    server,         \* upstream server: JSON body it holds for each endpoint
    pc,             \* position of the running program
    requests,       \* log of the GET requests made, in order
    metrics_data,   \* generate_ci_summary: result of get_project_metrics()
    issues_data,    \* generate_ci_summary / analyze_issues: issues response
    quality_gate,   \* generate_ci_summary: result of get_quality_gate_status()
    issue_analysis, \* result of analyze_issues()
    summary,        \* main: the summary returned by generate_ci_summary()
    ec_quality_gate,\* get_exit_code: its own quality_gate
    ec_issues_data, \* get_exit_code: its own issues_data
    exit_code,      \* main: exit_code passed to sys.exit
    rating,         \* _format_rating: argument
    rating_out      \* _format_rating: result

vars == <<args, server, pc, requests, metrics_data, issues_data, quality_gate,
          issue_analysis, summary, ec_quality_gate, ec_issues_data, exit_code,
          rating, rating_out>>

-----------------------------------------------------------------------------
(* Bounds *)

MaxIssues == 2

MaxRatingLen == 3

-----------------------------------------------------------------------------
(* Python values *)

EmptyDict == [k \in {} |-> 0]

None == [some |-> FALSE]

Some(v) == [some |-> TRUE, val |-> v]

\* Python truth value of an Optional[dict] or Optional[str]: None, {} and ""
\* are falsy.
Truthy(x) == x.some /\ DOMAIN x.val # {}

\* d.get(k, default)
Get(d, k, default) == IF k \in DOMAIN d THEN d[k] ELSE default

\* d.get(k): None when the key is absent
GetOpt(d, k) == IF k \in DOMAIN d THEN Some(d[k]) ELSE None

\* d[k] = v
Put(d, k, v) == [x \in (DOMAIN d) \cup {k} |-> IF x = k THEN v ELSE d[x]]

Upper == <<"A","B","C","D","E","F","G","H","I","J","K","L","M",
           "N","O","P","Q","R","S","T","U","V","W","X","Y","Z">>

LowerAlpha == <<"a","b","c","d","e","f","g","h","i","j","k","l","m",
                "n","o","p","q","r","s","t","u","v","w","x","y","z">>

\* str.lower()
Lower(s) ==
    [i \in 1..Len(s) |->
        IF \E j \in 1..26 : Upper[j] = s[i]
        THEN LowerAlpha[CHOOSE j \in 1..26 : Upper[j] = s[i]]
        ELSE s[i]]

\* pattern in s (substring test)
Contains(pattern, s) ==
    \E i \in 1..(Len(s) - Len(pattern) + 1) :
        SubSeq(s, i, i + Len(pattern) - 1) = pattern

\* s.split(":")[-1]
LastSegment(s) ==
    LET colons == {i \in 1..Len(s) : s[i] = ":"}
    IN  IF colons = {} THEN s
        ELSE LET last == CHOOSE i \in colons : \A j \in colons : j <= i
             IN  SubSeq(s, last + 1, Len(s))

NA == <<"N","/","A">>

-----------------------------------------------------------------------------
(* _get_issue_category *)

security_patterns ==
    << <<"h","a","r","d","c","o","d","e","d">>,
       <<"p","a","s","s","w","o","r","d">>,
       <<"s","e","c","r","e","t">>,
       <<"c","r","e","d","e","n","t","i","a","l">>,
       <<"t","o","k","e","n">>,
       <<"k","e","y">> >>

reliability_patterns ==
    << <<"n","u","l","l">>,
       <<"n","p","e">>,
       <<"e","x","c","e","p","t","i","o","n">>,
       <<"c","r","a","s","h">>,
       <<"f","a","i","l">> >>

\* any(pattern in rule_lower or pattern in message_lower for pattern in patterns)
AnyPattern(patterns, rule_lower, message_lower) ==
    \E i \in 1..Len(patterns) :
        Contains(patterns[i], rule_lower) \/ Contains(patterns[i], message_lower)

Mutant_get_issue_category(issue_type, rule_key, message) ==
    IF issue_type = "BUG" THEN "RELIABILITY"
    ELSE IF issue_type = "VULNERABILITY" THEN "SECURITY"
    ELSE IF issue_type = "CODE_SMELL" THEN "MAINTAINABILITY"
    ELSE IF AnyPattern(reliability_patterns, Lower(rule_key), Lower(message))
         THEN "RELIABILITY"
    ELSE IF AnyPattern(security_patterns, Lower(rule_key), Lower(message))
         THEN "SECURITY"
    ELSE "MAINTAINABILITY"

_get_issue_category(issue_type, rule_key, message) ==
    IF issue_type = "BUG" THEN "RELIABILITY"
    ELSE IF issue_type = "VULNERABILITY" THEN "SECURITY"
    ELSE IF issue_type = "CODE_SMELL" THEN "MAINTAINABILITY"
    ELSE LET rule_lower == Lower(rule_key)
             message_lower == Lower(message)
         IN  IF AnyPattern(security_patterns, rule_lower, message_lower)
             THEN "SECURITY"
             ELSE IF AnyPattern(reliability_patterns, rule_lower, message_lower)
             THEN "RELIABILITY"
             ELSE "MAINTAINABILITY"

-----------------------------------------------------------------------------
(* analyze_issues *)

\* the analysis dict before the loop
InitialAnalysis(issues) ==
    [ total            |-> Len(issues),
      by_severity      |-> [BLOCKER |-> 0, CRITICAL |-> 0, MAJOR |-> 0,
                            MINOR |-> 0, INFO |-> 0],
      by_type          |-> [BUG |-> 0, VULNERABILITY |-> 0, CODE_SMELL |-> 0],
      by_category      |-> [RELIABILITY |-> 0, SECURITY |-> 0,
                            MAINTAINABILITY |-> 0],
      category_details |-> [RELIABILITY |-> <<>>, SECURITY |-> <<>>,
                            MAINTAINABILITY |-> <<>>],
      critical_issues  |-> <<>>,
      new_issues       |-> 0 ]

\* analysis["by_severity"][severity] = analysis["by_severity"].get(severity, 0) + 1
Mutant_CountInto(counts, key) ==
    IF key \in DOMAIN counts THEN Put(counts, key, counts[key] + 1) ELSE counts

CountInto(counts, key) == Put(counts, key, Get(counts, key, 0) + 1)

\* the critical-issue record of an issue
CriticalRecord(issue, severity) ==
    [ rule     |-> GetOpt(issue, "rule"),
      severity |-> severity,
      message  |-> GetOpt(issue, "message"),
      file     |-> LastSegment(Get(issue, "component", <<>>)),
      line     |-> GetOpt(issue, "line") ]

\* if severity in ["BLOCKER", "CRITICAL"]: analysis["critical_issues"].append(...)
Mutant_TrackCritical(critical_issues, issue, severity) ==
    IF severity \in {"BLOCKER", "CRITICAL"}
    THEN <<CriticalRecord(issue, severity)>> \o critical_issues
    ELSE critical_issues

TrackCritical(critical_issues, issue, severity) ==
    IF severity \in {"BLOCKER", "CRITICAL"}
    THEN Append(critical_issues, CriticalRecord(issue, severity))
    ELSE critical_issues

\* one iteration of the loop over the issues
AnalyzeIssue(analysis, issue) ==
    LET severity   == Get(issue, "severity", "UNKNOWN")
        issue_type == Get(issue, "type", "UNKNOWN")
        rule_key   == Get(issue, "rule", <<>>)
        message    == Get(issue, "message", <<>>)
        category   == _get_issue_category(issue_type, rule_key, message)
        issue_detail ==
            [ rule      |-> rule_key,
              message   |-> message,
              severity  |-> severity,
              component |-> LastSegment(Get(issue, "component", <<>>)),
              line      |-> IF "line" \in DOMAIN issue
                            THEN [int |-> issue["line"]]
                            ELSE [str |-> NA] ]
    IN  [ total            |-> analysis.total,
          by_severity      |-> CountInto(analysis.by_severity, severity),
          by_type          |-> CountInto(analysis.by_type, issue_type),
          by_category      |-> CountInto(analysis.by_category, category),
          category_details |->
              [analysis.category_details EXCEPT
                  ![category] = Append(@, issue_detail)],
          critical_issues  |->
              TrackCritical(analysis.critical_issues, issue, severity),
          new_issues       |->
              IF Get(issue, "isNew", FALSE)
              THEN analysis.new_issues + 1
              ELSE analysis.new_issues ]

RECURSIVE AnalyzeLoop(_, _, _)
\* for issue in issues: ..., from the i-th issue on
AnalyzeLoop(analysis, issues, i) ==
    IF i > Len(issues) THEN analysis
    ELSE AnalyzeLoop(AnalyzeIssue(analysis, issues[i]), issues, i + 1)

analyze_issues(data) ==
    IF ~Truthy(data) THEN EmptyDict
    ELSE LET issues == Get(data.val, "issues", <<>>)
         IN  AnalyzeLoop(InitialAnalysis(issues), issues, 1)

-----------------------------------------------------------------------------
(* Report rendering *)

\* measures = {}; for measure in ...: measures[measure["metric"]] = ...
RECURSIVE MeasuresLoop(_, _, _)
MeasuresLoop(measures, list, i) ==
    IF i > Len(list) THEN measures
    ELSE MeasuresLoop(Put(measures, list[i]["metric"],
                          Get(list[i], "value", NA)), list, i + 1)

\* the "Extract metrics" block shared by the three renderers
ExtractMeasures(data) ==
    IF Truthy(data) /\ "component" \in DOMAIN data.val
    THEN MeasuresLoop(EmptyDict, Get(data.val["component"], "measures", <<>>), 1)
    ELSE EmptyDict

\* the "Quality Gate Status" block shared by the three renderers
QgStatus(gate) ==
    IF Truthy(gate) /\ "projectStatus" \in DOMAIN gate.val
    THEN Get(gate.val["projectStatus"], "status", "UNKNOWN")
    ELSE "UNKNOWN"

ratings ==
    (<<"1",".","0">> :> <<"A"," ","(star)">>) @@
    (<<"2",".","0">> :> <<"B"," ","(green)">>) @@
    (<<"3",".","0">> :> <<"C"," ","(yellow)">>) @@
    (<<"4",".","0">> :> <<"D"," ","(orange)">>) @@
    (<<"5",".","0">> :> <<"E"," ","(red)">>)

Mutant_format_rating(r) ==
    IF ~Truthy(r) THEN NA ELSE Get(ratings, r.val, NA)

_format_rating(r) ==
    IF ~Truthy(r) THEN NA ELSE Get(ratings, r.val, r.val)

\* the "CI Decision" block of the text report
Mutant_DecisionLine(qg_status, analysis) ==
    LET blocker_count  == Get(analysis.by_severity, "BLOCKER", 0)
        critical_count == Get(analysis.by_severity, "CRITICAL", 0)
    IN  IF qg_status # "OK"
        THEN [glyph |-> "(cross)", verdict |-> "FAIL", count |-> None,
              text |-> "Quality Gate failed"]
        ELSE IF critical_count > 0
        THEN [glyph |-> "(warning)", verdict |-> "WARNING",
              count |-> Some(critical_count),
              text |-> "CRITICAL issue(s) found"]
        ELSE IF blocker_count > 0
        THEN [glyph |-> "(cross)", verdict |-> "FAIL",
              count |-> Some(blocker_count),
              text |-> "BLOCKER issue(s) found"]
        ELSE [glyph |-> "(check)", verdict |-> "PASS", count |-> None,
              text |-> "No blocking issues found"]

DecisionLine(qg_status, analysis) ==
    LET blocker_count  == Get(analysis.by_severity, "BLOCKER", 0)
        critical_count == Get(analysis.by_severity, "CRITICAL", 0)
    IN  IF qg_status # "OK"
        THEN [glyph |-> "(cross)", verdict |-> "FAIL", count |-> None,
              text |-> "Quality Gate failed"]
        ELSE IF blocker_count > 0
        THEN [glyph |-> "(cross)", verdict |-> "FAIL",
              count |-> Some(blocker_count),
              text |-> "BLOCKER issue(s) found"]
        ELSE IF critical_count > 0
        THEN [glyph |-> "(warning)", verdict |-> "WARNING",
              count |-> Some(critical_count),
              text |-> "CRITICAL issue(s) found"]
        ELSE [glyph |-> "(check)", verdict |-> "PASS", count |-> None,
              text |-> "No blocking issues found"]

MaxShown == 5

\* the "Add critical issues if any" block of the text report
CriticalBlock(analysis) ==
    LET critical_issues == Get(analysis, "critical_issues", <<>>)
        shown == SubSeq(critical_issues, 1,
                        IF Len(critical_issues) > MaxShown
                        THEN MaxShown ELSE Len(critical_issues))
    IN  [ shown |-> [i \in 1..Len(shown) |->
                        [ n        |-> i,
                          severity |-> shown[i].severity,
                          file     |-> shown[i].file,
                          line     |-> Get(shown[i], "line", Some("?")),
                          message  |-> shown[i].message ]],
          more  |-> IF Len(critical_issues) > MaxShown
                    THEN Some(Len(critical_issues) - MaxShown)
                    ELSE None ]

_generate_text_summary(m_data, analysis, gate) ==
    LET measures  == ExtractMeasures(m_data)
        qg_status == QgStatus(gate)
    IN  [ format           |-> "text",
          quality_gate     |-> qg_status,
          gate_glyph       |-> IF qg_status = "OK" THEN "(check)" ELSE "(cross)",
          ncloc            |-> Get(measures, "ncloc", NA),
          coverage         |-> Get(measures, "coverage", NA),
          duplicated_lines |-> Get(measures, "duplicated_lines_density", NA),
          maintainability  |-> _format_rating(GetOpt(measures, "sqale_rating")),
          reliability      |-> _format_rating(GetOpt(measures, "reliability_rating")),
          security         |-> _format_rating(GetOpt(measures, "security_rating")),
          total            |-> Get(analysis, "total", 0),
          new_issues       |-> Get(analysis, "new_issues", 0),
          by_category      |->
              [c \in {"RELIABILITY", "SECURITY", "MAINTAINABILITY"} |->
                  Get(analysis["by_category"], c, 0)],
          by_severity      |->
              [s \in {"BLOCKER", "CRITICAL", "MAJOR", "MINOR", "INFO"} |->
                  Get(analysis["by_severity"], s, 0)],
          by_type          |->
              [t \in {"BUG", "VULNERABILITY", "CODE_SMELL"} |->
                  Get(analysis["by_type"], t, 0)],
          critical         |-> CriticalBlock(analysis),
          decision         |-> DecisionLine(qg_status, analysis) ]

\* the "ci_decision" object of the JSON report
Mutant_ci_decision(qg_status, analysis) ==
    [ should_fail  |-> qg_status # "OK"
                       \/ Get(analysis["by_severity"], "BLOCKER", 0) > 0,
      has_warnings |-> Get(analysis["by_severity"], "CRITICAL", 0) > 0,
      is_passing   |-> qg_status = "OK" ]

ci_decision(qg_status, analysis) ==
    [ should_fail  |-> qg_status # "OK"
                       \/ Get(analysis["by_severity"], "BLOCKER", 0) > 0,
      has_warnings |-> Get(analysis["by_severity"], "CRITICAL", 0) > 0,
      is_passing   |-> qg_status = "OK"
                       /\ Get(analysis["by_severity"], "BLOCKER", 0) = 0 ]

_generate_json_summary(m_data, analysis, gate) ==
    LET measures  == ExtractMeasures(m_data)
        qg_status == QgStatus(gate)
    IN  [ format       |-> "json",
          quality_gate |-> [status |-> qg_status, passed |-> qg_status = "OK"],
          metrics      |-> measures,
          issues       |-> analysis,
          ci_decision  |-> ci_decision(qg_status, analysis) ]

_generate_markdown_summary(m_data, analysis, gate) ==
    LET measures  == ExtractMeasures(m_data)
        qg_status == QgStatus(gate)
    IN  [ format           |-> "markdown",
          status_emoji     |-> IF qg_status = "OK" THEN "(check)" ELSE "(cross)",
          quality_gate     |-> qg_status,
          ncloc            |-> Get(measures, "ncloc", NA),
          coverage         |-> Get(measures, "coverage", NA),
          duplicated_lines |-> Get(measures, "duplicated_lines_density", NA),
          maintainability  |-> _format_rating(GetOpt(measures, "sqale_rating")),
          reliability      |-> _format_rating(GetOpt(measures, "reliability_rating")),
          security         |-> _format_rating(GetOpt(measures, "security_rating")),
          by_severity      |->
              [s \in {"BLOCKER", "CRITICAL", "MAJOR", "MINOR", "INFO"} |->
                  Get(analysis["by_severity"], s, 0)],
          total            |-> Get(analysis, "total", 0),
          new_issues       |-> Get(analysis, "new_issues", 0) ]

\* the str returned when the issue list is unavailable
FailureString == [str |-> "(cross) Failed to retrieve analysis data"]

\* generate_ci_summary after its three fetches
generate_ci_summary(format_type, m_data, i_data, gate) ==
    IF ~Truthy(i_data) THEN FailureString
    ELSE LET analysis == analyze_issues(i_data)
         IN  IF format_type = "json"
             THEN _generate_json_summary(m_data, analysis, gate)
             ELSE IF format_type = "markdown"
             THEN _generate_markdown_summary(m_data, analysis, gate)
             ELSE _generate_text_summary(m_data, analysis, gate)

-----------------------------------------------------------------------------
(* get_exit_code after its two fetches *)

Mutant_get_exit_code(gate, i_data) ==
    IF ~Truthy(gate) \/ ~Truthy(i_data) THEN 2
    ELSE LET qg_status ==
                 Get(Get(gate.val, "projectStatus", EmptyDict), "status", "OK")
         IN  IF qg_status # "OK" THEN 1
             ELSE LET analysis == analyze_issues(i_data)
                      blocker_count == Get(analysis["by_severity"], "BLOCKER", 0)
                  IN  IF blocker_count > 0 THEN 1 ELSE 0

MutantCode_get_exit_code(gate, i_data) ==
    IF ~Truthy(gate) \/ ~Truthy(i_data) THEN 1
    ELSE LET qg_status ==
                 Get(Get(gate.val, "projectStatus", EmptyDict), "status", "ERROR")
         IN  IF qg_status # "OK" THEN 1
             ELSE LET analysis == analyze_issues(i_data)
                      blocker_count == Get(analysis["by_severity"], "BLOCKER", 0)
                  IN  IF blocker_count > 0 THEN 1 ELSE 0

get_exit_code(gate, i_data) ==
    IF ~Truthy(gate) \/ ~Truthy(i_data) THEN 2
    ELSE LET qg_status ==
                 Get(Get(gate.val, "projectStatus", EmptyDict), "status", "ERROR")
         IN  IF qg_status # "OK" THEN 1
             ELSE LET analysis == analyze_issues(i_data)
                      blocker_count == Get(analysis["by_severity"], "BLOCKER", 0)
                  IN  IF blocker_count > 0 THEN 1 ELSE 0

-----------------------------------------------------------------------------
(* The upstream server and the API client *)

Endpoints == {"measures/component", "issues/search", "qualitygates/project_status"}

\* make_request: the 200 response's JSON body, or None on any other status
\* or on an exception
make_request(endpoint) == {None, Some(server[endpoint])}

get_project_metrics == make_request("measures/component")

get_issues == make_request("issues/search")

get_quality_gate_status == make_request("qualitygates/project_status")

\* entry of the request log
Req(endpoint, response) == [endpoint |-> endpoint, ok |-> response.some]

-----------------------------------------------------------------------------
(* Inputs *)

S1 == <<"S","1">>

IssueBlocker ==
    [ severity |-> "BLOCKER", type |-> "BUG", rule |-> S1,
      message |-> <<"N","U","L","L">>,
      component |-> <<"p",":","a",".","p","y">>, line |-> 3, isNew |-> TRUE ]

IssueCritical ==
    [ severity |-> "CRITICAL", type |-> "VULNERABILITY", rule |-> <<"S","2">>,
      message |-> <<"k","e","y">>,
      component |-> <<"p",":","m",":","b">>, line |-> 7 ]

IssueMajor ==
    [ severity |-> "MAJOR", type |-> "CODE_SMELL", rule |-> <<"S","3">>,
      message |-> <<"t","o","d","o">>, component |-> <<"c">>,
      isNew |-> FALSE ]

\* no severity, no type, no component, no line
IssueBare ==
    [ rule |-> <<"S","4">>,
      message |-> <<"P","a","s","s","w","o","r","d"," ","c","r","a","s","h">> ]

IssueBlocker2 ==
    [ severity |-> "BLOCKER", type |-> "SECURITY_HOTSPOT", rule |-> <<"S","5">>,
      message |-> <<"f","a","i","l">>,
      component |-> <<"p",":","d">>, line |-> 1 ]

\* a severity the code does not know
IssueFatal ==
    [ severity |-> "FATAL", type |-> "BUG", rule |-> S1,
      message |-> <<>>, component |-> <<"p",":","e">>, line |-> 9,
      isNew |-> TRUE ]

IssueInfo ==
    [ severity |-> "INFO", type |-> "CODE_SMELL", rule |-> <<"n","p","e">>,
      message |-> <<"x">>, component |-> <<"p",":">>, line |-> 2 ]

IssueMinor ==
    [ severity |-> "MINOR", message |-> <<"x">>, line |-> 4 ]

MainPool == {IssueBlocker, IssueCritical, IssueMajor, IssueBare}

AnalyzePool == MainPool \cup {IssueBlocker2, IssueFatal, IssueInfo, IssueMinor}

\* the issue lists of at most n issues of a pool
Lists(pool, n) == UNION {[1..k -> pool] : k \in 0..n}

CategoryTypes == {"BUG", "VULNERABILITY", "CODE_SMELL", "bug", "SECURITY_HOTSPOT"}

CategoryRules == {S1, <<"K","e","y">>, <<"n","p","e">>}

CategoryMessages ==
    { <<>>,
      <<"t","o","d","o">>,
      <<"N","U","L","L">>,
      <<"P","a","s","s","w","o","r","d"," ","c","r","a","s","h">> }

\* single issues over every combination of type, rule and message
CategoryPool ==
    { [severity |-> "MINOR", type |-> t, rule |-> r, message |-> m] :
        t \in CategoryTypes, r \in CategoryRules, m \in CategoryMessages }
    \cup
    { [severity |-> "MINOR", rule |-> r, message |-> m] :
        r \in CategoryRules, m \in CategoryMessages }

\* bodies of the issues/search endpoint over the given lists
IssueBodies(lists) ==
    {EmptyDict, [total |-> 0]} \cup {[issues |-> l] : l \in lists}

GateBodies ==
    { EmptyDict,
      [errors |-> 1],
      [projectStatus |-> EmptyDict],
      [projectStatus |-> [status |-> "OK"]],
      [projectStatus |-> [status |-> "ERROR"]] }

FullMeasures ==
    << [metric |-> "sqale_rating", value |-> <<"2",".","0">>],
       [metric |-> "ncloc", value |-> <<"4","2">>],
       [metric |-> "reliability_rating", value |-> <<"6",".","0">>],
       [metric |-> "security_rating"],
       [metric |-> "sqale_rating", value |-> <<"1",".","0">>] >>

MetricsBodies ==
    { EmptyDict,
      [component |-> EmptyDict],
      [component |-> [measures |-> FullMeasures]] }

Formats == {"text", "json", "markdown"}

RatingAlphabet == {"1", "2", "3", "4", "5", ".", "0"}

RatingInputs ==
    {None, Some(NA)}
    \cup {Some(s) : s \in UNION {[1..k -> RatingAlphabet] : k \in 0..MaxRatingLen}}

-----------------------------------------------------------------------------
(* main *)

Init ==
    /\ args \in [format : Formats, exit_code : BOOLEAN]
    /\ server \in
         { [e \in Endpoints |->
               IF e = "measures/component" THEN m
               ELSE IF e = "issues/search" THEN i ELSE g] :
             m \in MetricsBodies,
             i \in IssueBodies(Lists(MainPool, MaxIssues)),
             g \in GateBodies }
    /\ pc = "main"
    /\ requests = <<>>
    /\ metrics_data = None
    /\ issues_data = None
    /\ quality_gate = None
    /\ issue_analysis = EmptyDict
    /\ summary = None
    /\ ec_quality_gate = None
    /\ ec_issues_data = None
    /\ exit_code = 0
    /\ rating = None
    /\ rating_out = <<>>

\* main: summary = analyzer.generate_ci_summary(args.format), then output
MainGenerateSummary ==
    /\ pc = "main"
    /\ \E m \in get_project_metrics, i \in get_issues,
          g \in get_quality_gate_status :
         /\ metrics_data' = m
         /\ issues_data' = i
         /\ quality_gate' = g
         /\ issue_analysis' = IF Truthy(i) THEN analyze_issues(i)
                              ELSE issue_analysis
         /\ summary' = Some(generate_ci_summary(args.format, m, i, g))
         /\ requests' = requests \o
                <<Req("measures/component", m), Req("issues/search", i),
                  Req("qualitygates/project_status", g)>>
    /\ pc' = "summary_written"
    /\ UNCHANGED <<args, server, ec_quality_gate, ec_issues_data, exit_code,
                   rating, rating_out>>

\* main: if args.exit_code: sys.exit(analyzer.get_exit_code())
MainExitCode ==
    /\ pc = "summary_written"
    /\ args.exit_code
    /\ \E g \in get_quality_gate_status, i \in get_issues :
         /\ ec_quality_gate' = g
         /\ ec_issues_data' = i
         /\ exit_code' = get_exit_code(g, i)
         /\ requests' = requests \o
                <<Req("qualitygates/project_status", g), Req("issues/search", i)>>
    /\ pc' = "exited"
    /\ UNCHANGED <<args, server, metrics_data, issues_data, quality_gate,
                   issue_analysis, summary, rating, rating_out>>

\* main: without --exit-code the program returns after the output
MainReturn ==
    /\ pc = "summary_written"
    /\ ~args.exit_code
    /\ pc' = "returned"
    /\ UNCHANGED <<args, server, requests, metrics_data, issues_data,
                   quality_gate, issue_analysis, summary, ec_quality_gate,
                   ec_issues_data, exit_code, rating, rating_out>>

Next == MainGenerateSummary \/ MainExitCode \/ MainReturn

Spec == Init /\ [][Next]_vars

-----------------------------------------------------------------------------
(* analyze_issues called on its own *)

DefaultServer ==
    [e \in Endpoints |->
        IF e = "qualitygates/project_status"
        THEN [projectStatus |-> [status |-> "OK"]] ELSE EmptyDict]

InitAnalyze ==
    /\ args = [format |-> "text", exit_code |-> FALSE]
    /\ server = DefaultServer
    /\ pc = "analyze_issues"
    /\ requests = <<>>
    /\ metrics_data = None
    /\ issues_data \in
         {None} \cup
         {Some(b) : b \in IssueBodies(Lists(AnalyzePool, MaxIssues)
                                      \cup {<<i>> : i \in CategoryPool})}
    /\ quality_gate = None
    /\ issue_analysis = EmptyDict
    /\ summary = None
    /\ ec_quality_gate = None
    /\ ec_issues_data = None
    /\ exit_code = 0
    /\ rating = None
    /\ rating_out = <<>>

\* issue_analysis = analyzer.analyze_issues(issues_data)
AnalyzeIssues ==
    /\ pc = "analyze_issues"
    /\ issue_analysis' = analyze_issues(issues_data)
    /\ pc' = "analyzed"
    /\ UNCHANGED <<args, server, requests, metrics_data, issues_data,
                   quality_gate, summary, ec_quality_gate, ec_issues_data,
                   exit_code, rating, rating_out>>

NextAnalyze == AnalyzeIssues

SpecAnalyze == InitAnalyze /\ [][NextAnalyze]_vars

-----------------------------------------------------------------------------
(* _format_rating called on its own *)

InitRating ==
    /\ args = [format |-> "text", exit_code |-> FALSE]
    /\ server = DefaultServer
    /\ pc = "format_rating"
    /\ requests = <<>>
    /\ metrics_data = None
    /\ issues_data = None
    /\ quality_gate = None
    /\ issue_analysis = EmptyDict
    /\ summary = None
    /\ ec_quality_gate = None
    /\ ec_issues_data = None
    /\ exit_code = 0
    /\ rating \in RatingInputs
    /\ rating_out = <<>>

\* rating_out = analyzer._format_rating(rating)
FormatRating ==
    /\ pc = "format_rating"
    /\ rating_out' = _format_rating(rating)
    /\ pc' = "formatted"
    /\ UNCHANGED <<args, server, requests, metrics_data, issues_data,
                   quality_gate, issue_analysis, summary, ec_quality_gate,
                   ec_issues_data, exit_code, rating>>

NextRating == FormatRating

SpecRating == InitRating /\ [][NextRating]_vars

-----------------------------------------------------------------------------
(* Vocabulary of the properties, stated on the responses themselves *)

\* a fetch that returned no data: a failed request, or an empty JSON object
NoData(r) == ~r.some \/ DOMAIN r.val = {}

\* the issue list a response carries
IssueList(r) ==
    IF r.some /\ "issues" \in DOMAIN r.val THEN r.val["issues"] ELSE <<>>

\* the severity / type an issue is counted under
SeverityOf(issue) ==
    IF "severity" \in DOMAIN issue THEN issue["severity"] ELSE "UNKNOWN"

TypeOf(issue) == IF "type" \in DOMAIN issue THEN issue["type"] ELSE "UNKNOWN"

\* number of issues of a response with the given severity
SeverityCount(r, sev) ==
    Cardinality({k \in 1..Len(IssueList(r)) : SeverityOf(IssueList(r)[k]) = sev})

\* the gate response carries the status "OK"
GateIsOK(r) ==
    /\ r.some
    /\ "projectStatus" \in DOMAIN r.val
    /\ "status" \in DOMAIN r.val["projectStatus"]
    /\ r.val["projectStatus"]["status"] = "OK"

RECURSIVE SumOver(_, _)
\* sum of the counts of a bucket mapping over the given keys
SumOver(counts, keys) ==
    IF keys = {} THEN 0
    ELSE LET k == CHOOSE x \in keys : TRUE
         IN  counts[k] + SumOver(counts, keys \ {k})

Severities == {"BLOCKER", "CRITICAL", "MAJOR", "MINOR", "INFO"}

Types == {"BUG", "VULNERABILITY", "CODE_SMELL"}

Categories == {"RELIABILITY", "SECURITY", "MAINTAINABILITY"}

-----------------------------------------------------------------------------
(* Properties *)

\* C1: get_exit_code returns 2 exactly when the gate fetch or the issue fetch
\* returned no data; otherwise 1 exactly when the gate status is not "OK"
\* (a response without a status included) or the BLOCKER count is positive;
\* otherwise 0.
C1_ExitCode ==
    pc = "exited" =>
        exit_code =
            IF NoData(ec_quality_gate) \/ NoData(ec_issues_data) THEN 2
            ELSE IF ~GateIsOK(ec_quality_gate)
                    \/ SeverityCount(ec_issues_data, "BLOCKER") > 0 THEN 1
            ELSE 0

\* a gate response that carries no status, with issues fetched: exit code 1
C1_Witness ==
    /\ pc = "exited"
    /\ ec_quality_gate = Some([projectStatus |-> EmptyDict])
    /\ ~NoData(ec_issues_data)
    /\ SeverityCount(ec_issues_data, "BLOCKER") = 0
    /\ exit_code = 1

\* C2: in the JSON report's ci_decision, is_passing iff gate status "OK" and
\* no BLOCKER; should_fail iff gate status not "OK" or some BLOCKER; exactly
\* one of is_passing and should_fail is true; has_warnings iff some CRITICAL.
C2_CiDecision ==
    (summary.some /\ summary.val # FailureString /\ args.format = "json") =>
        LET d        == summary.val["ci_decision"]
            status   == summary.val["quality_gate"]["status"]
            blockers == SeverityCount(issues_data, "BLOCKER")
        IN  /\ d["is_passing"] <=> (status = "OK" /\ blockers = 0)
            /\ d["should_fail"] <=> (status # "OK" \/ blockers > 0)
            /\ d["is_passing"] # d["should_fail"]
            /\ d["has_warnings"] <=> (SeverityCount(issues_data, "CRITICAL") > 0)
            /\ (status = "OK") <=> GateIsOK(quality_gate)

\* a JSON report of a passed gate with a BLOCKER and a CRITICAL issue:
\* should_fail and has_warnings are both true
C2_Witness ==
    /\ summary.some /\ summary.val # FailureString /\ args.format = "json"
    /\ GateIsOK(quality_gate)
    /\ SeverityCount(issues_data, "BLOCKER") > 0
    /\ summary.val["ci_decision"]["should_fail"]
    /\ summary.val["ci_decision"]["has_warnings"]
    /\ ~summary.val["ci_decision"]["is_passing"]

\* C3: when the issues fetch of generate_ci_summary fails, the summary is the
\* failure string whatever the format, the metrics and the gate; when the
\* issues fetch of get_exit_code fails, the exit code is 2.
C3_IssuesFetchFailure ==
    /\ (pc # "main" /\ ~issues_data.some) => summary = Some(FailureString)
    /\ (pc = "exited" /\ ~ec_issues_data.some) => exit_code = 2

\* both issue fetches failed although metrics and gate were fetched, for the
\* JSON format
C3_Witness ==
    /\ pc = "exited"
    /\ args.format = "json"
    /\ ~issues_data.some /\ ~ec_issues_data.some
    /\ Truthy(metrics_data) /\ GateIsOK(quality_gate) /\ GateIsOK(ec_quality_gate)
    /\ summary = Some(FailureString)
    /\ exit_code = 2

\* C4: for the issue list of any response analyze_issues accepts, the
\* per-severity counts and the per-type counts each sum to the number of
\* issues, each bucket holding exactly the issues of its value (a missing or
\* unrecognized value has a bucket of its own).
C4_CountsSumToTotal ==
    (pc = "analyzed" /\ Truthy(issues_data)) =>
        LET issues == IssueList(issues_data)
            by_sev == issue_analysis["by_severity"]
            by_typ == issue_analysis["by_type"]
        IN  /\ issue_analysis["total"] = Len(issues)
            /\ SumOver(by_sev, DOMAIN by_sev) = Len(issues)
            /\ SumOver(by_typ, DOMAIN by_typ) = Len(issues)
            /\ \A k \in 1..Len(issues) :
                 /\ SeverityOf(issues[k]) \in DOMAIN by_sev
                 /\ TypeOf(issues[k]) \in DOMAIN by_typ
            /\ \A sev \in DOMAIN by_sev :
                 by_sev[sev] = SeverityCount(issues_data, sev)

\* an unrecognized severity and a missing type were counted
C4_Witness ==
    /\ pc = "analyzed" /\ Truthy(issues_data)
    /\ issue_analysis["total"] = 2
    /\ "FATAL" \in DOMAIN issue_analysis["by_severity"]
    /\ issue_analysis["by_severity"]["FATAL"] = 1
    /\ "UNKNOWN" \in DOMAIN issue_analysis["by_type"]

\* the keyword sets of the specification
SecurityKeywords ==
    { <<"h","a","r","d","c","o","d","e","d">>, <<"p","a","s","s","w","o","r","d">>,
      <<"s","e","c","r","e","t">>, <<"c","r","e","d","e","n","t","i","a","l">>,
      <<"t","o","k","e","n">>, <<"k","e","y">> }

ReliabilityKeywords ==
    { <<"n","u","l","l">>, <<"n","p","e">>,
      <<"e","x","c","e","p","t","i","o","n">>, <<"c","r","a","s","h">>,
      <<"f","a","i","l">> }

\* a keyword of the set occurs in the lower-cased rule or message of the issue
HasKeyword(keywords, issue) ==
    \E w \in keywords :
        \/ "rule" \in DOMAIN issue /\ Contains(w, Lower(issue["rule"]))
        \/ "message" \in DOMAIN issue /\ Contains(w, Lower(issue["message"]))

\* the category the specified decision list gives an issue
ExpectedCategory(issue) ==
    CASE TypeOf(issue) = "BUG" -> "RELIABILITY"
      [] TypeOf(issue) = "VULNERABILITY" -> "SECURITY"
      [] TypeOf(issue) = "CODE_SMELL" -> "MAINTAINABILITY"
      [] OTHER ->
           IF HasKeyword(SecurityKeywords, issue) THEN "SECURITY"
           ELSE IF HasKeyword(ReliabilityKeywords, issue) THEN "RELIABILITY"
           ELSE "MAINTAINABILITY"

\* C5: every issue is categorized by the decision list: type first, then a
\* security keyword, then a reliability keyword, then MAINTAINABILITY.
C5_CategoryDecisionList ==
    (pc = "analyzed" /\ Truthy(issues_data)) =>
        LET issues == IssueList(issues_data)
        IN  /\ DOMAIN issue_analysis["by_category"] = Categories
            /\ \A c \in Categories :
                 /\ issue_analysis["by_category"][c] =
                      Cardinality({k \in 1..Len(issues) :
                                      ExpectedCategory(issues[k]) = c})
                 /\ Len(issue_analysis["category_details"][c]) =
                      issue_analysis["by_category"][c]

\* an issue of unrecognized type with a security and a reliability keyword
\* in its message was categorized SECURITY
C5_Witness ==
    /\ pc = "analyzed" /\ Truthy(issues_data)
    /\ Len(IssueList(issues_data)) = 1
    /\ TypeOf(IssueList(issues_data)[1]) = "bug"
    /\ HasKeyword(SecurityKeywords, IssueList(issues_data)[1])
    /\ HasKeyword(ReliabilityKeywords, IssueList(issues_data)[1])
    /\ issue_analysis["by_category"]["SECURITY"] = 1
    /\ issue_analysis["by_category"]["RELIABILITY"] = 0

\* C6: every analysis analyze_issues returns, the one for a null or absent
\* input included, has the five severity, three type and three category
\* buckets.
C6_AllBucketsPresent ==
    pc = "analyzed" =>
        /\ "by_severity" \in DOMAIN issue_analysis
        /\ "by_type" \in DOMAIN issue_analysis
        /\ "by_category" \in DOMAIN issue_analysis
        /\ Severities \subseteq DOMAIN issue_analysis["by_severity"]
        /\ Types \subseteq DOMAIN issue_analysis["by_type"]
        /\ Categories \subseteq DOMAIN issue_analysis["by_category"]

\* the letter grade of each rating code
Grades ==
    (<<"1",".","0">> :> "A") @@ (<<"2",".","0">> :> "B") @@
    (<<"3",".","0">> :> "C") @@ (<<"4",".","0">> :> "D") @@
    (<<"5",".","0">> :> "E")

\* C7 as stated: the five rating codes give their letter grade and every
\* other input gives "N/A".
C7_OtherInputsNA ==
    pc = "formatted" =>
        IF rating.some /\ rating.val \in DOMAIN Grades
        THEN rating_out[1] = Grades[rating.val]
        ELSE rating_out = NA

\* C7 amended: the five rating codes give their letter grade, an absent or
\* empty rating gives "N/A", and every other value is rendered unchanged.
C7_RatingPassThrough ==
    pc = "formatted" =>
        IF rating.some /\ rating.val \in DOMAIN Grades
        THEN rating_out[1] = Grades[rating.val]
        ELSE IF ~rating.some \/ rating.val = <<>>
        THEN rating_out = NA
        ELSE rating_out = rating.val

\* an unrecognized rating was rendered unchanged
C7_Witness ==
    /\ pc = "formatted"
    /\ rating = Some(<<"1",".","5">>)
    /\ rating_out = <<"1",".","5">>

\* C8: for the same fetched gate and issues, the text decision line is FAIL
\* exactly when the exit code is 1; with gate "OK", no BLOCKER and some
\* CRITICAL the line is WARNING, the exit code 0, has_warnings and is_passing
\* true; with gate "OK", no BLOCKER and no CRITICAL the line is PASS and the
\* exit code 0.
C8_DecisionLineVsExitCode ==
    ( /\ pc = "exited" /\ args.format = "text"
      /\ ~NoData(quality_gate) /\ ~NoData(issues_data)
      /\ ec_quality_gate = quality_gate /\ ec_issues_data = issues_data ) =>
        LET verdict   == summary.val["decision"]["verdict"]
            blockers  == SeverityCount(issues_data, "BLOCKER")
            criticals == SeverityCount(issues_data, "CRITICAL")
            decision  == ci_decision(QgStatus(quality_gate), issue_analysis)
        IN  /\ verdict = "FAIL" <=> exit_code = 1
            /\ exit_code = 1 <=> (~GateIsOK(quality_gate) \/ blockers > 0)
            /\ (GateIsOK(quality_gate) /\ blockers = 0 /\ criticals > 0) =>
                 /\ verdict = "WARNING" /\ exit_code = 0
                 /\ decision["has_warnings"] /\ decision["is_passing"]
            /\ (GateIsOK(quality_gate) /\ blockers = 0 /\ criticals = 0) =>
                 verdict = "PASS" /\ exit_code = 0

\* a WARNING line with exit code 0
C8_Witness ==
    /\ pc = "exited" /\ args.format = "text"
    /\ ~NoData(quality_gate) /\ ~NoData(issues_data)
    /\ ec_quality_gate = quality_gate /\ ec_issues_data = issues_data
    /\ SeverityCount(issues_data, "CRITICAL") = 2
    /\ summary.val["decision"]["verdict"] = "WARNING"
    /\ exit_code = 0

\* C9: once a request to an endpoint has failed, the endpoint is not
\* requested again in the same run.
C9_NoRequestAfterFailure ==
    \A i, j \in 1..Len(requests) :
        (i < j /\ requests[i].endpoint = requests[j].endpoint) => requests[i].ok

\* whether an issue is tracked as critical
IsCritical(issue) == SeverityOf(issue) \in {"BLOCKER", "CRITICAL"}

\* C10: the critical-issues list is the subsequence of the input issues of
\* severity BLOCKER or CRITICAL, in input order, so its length is the BLOCKER
\* count plus the CRITICAL count.
C10_CriticalSubsequence ==
    (pc = "analyzed" /\ Truthy(issues_data)) =>
        LET expected == SelectSeq(IssueList(issues_data), IsCritical)
            critical == issue_analysis["critical_issues"]
        IN  /\ Len(critical) = Len(expected)
            /\ \A k \in 1..Len(expected) :
                 critical[k] = CriticalRecord(expected[k], SeverityOf(expected[k]))
            /\ Len(critical) = issue_analysis["by_severity"]["BLOCKER"]
                               + issue_analysis["by_severity"]["CRITICAL"]

\* a CRITICAL issue followed by a BLOCKER issue stayed in that order
C10_Witness ==
    /\ pc = "analyzed" /\ Truthy(issues_data)
    /\ Len(issue_analysis["critical_issues"]) = 2
    /\ issue_analysis["critical_issues"][1]["severity"] = "CRITICAL"
    /\ issue_analysis["critical_issues"][2]["severity"] = "BLOCKER"

====
